---- MODULE Spec2Model ----
(***************************************************************************)
(* A model of the RAG assistant of rgz/: the query side (bot.py's         *)
(* handle_question driving RagService.generate_answer in a worker thread)  *)
(* and the ingestion batch job (ingest.py's main).                         *)
(*                                                                         *)
(*   Spec        the query side: concurrent questions, each one retrieve,  *)
(*               build prompt, chat loop, and the reply of the handler.    *)
(*   SpecIngest  the ingestion side: the source directory, the persisted   *)
(*               collection and successive runs of ingest.py.              *)
(*   SpecCalls   single calls of retrieve and _build_prompt on arguments    *)
(*               drawn from bounded sets.                                  *)
(*   SpecBot     long sessions of two users: questions, saved favorites,   *)
(*               resets.                                                   *)
(*   SpecService the start of the bot (RagService opening the collection)  *)
(*               among runs of ingest.py.                                  *)
(*   SpecPress   the query side with the buttons under the answers: a     *)
(*               user pressing the save button of an answer message.       *)
(***************************************************************************)
EXTENDS Integers, Sequences, FiniteSets, TLC

VARIABLES
    \* ---- query side -------------------------------------------------
    pc,          \* per question: where its handler / worker thread stands
    quser,       \* per question: the asking user's id (0: not submitted)
    qtext,       \* per question: the question text after strip()
    queries,     \* per question: what each collection.query call came back with
    docs,        \* per question: the passages retrieve() returned
    prompt,      \* per question: what _build_prompt returned
    attempt,     \* per question: the loop variable of `for attempt in range(3)`
    outcomes,    \* per question: what each ollama.chat call came back with
    waits,       \* per question: the seconds of each time.sleep of the loop
    result,      \* per question: what generate_answer returned or raised
    replies,     \* per question: the messages the handler sent to the chat
    steps,       \* per question: the order in which the call's steps happened
    user_state,  \* bot.py's global dict: user id -> session record
    \* ---- ingestion side ---------------------------------------------
    dir,         \* data/raw: path -> file text (<<>>: empty or no such file)
    collExists,  \* whether the collection exists in the persisted index
    entries,     \* the collection: id -> [text, source, filename, chunk]
    indexOps,    \* every operation issued on the vector index, in order
    runLog,      \* one record per finished run of ingest.py's main()
    edits,       \* how many times the source directory was edited
    \* ---- single calls --------------------------------------------------
    call,        \* the last call of a function on its own: arguments, result
    \* ---- bot process -----------------------------------------------------
    svcLog,      \* one record per RagService() constructed (a start of the bot)
    answeredLog, \* per user: every (question, answer) generate_answer returned
    savedLog,    \* per user: every favorite saved, in the order of saving
    pressLog     \* every press of a save button: the message pressed, the text saved

queryVars == <<pc, quser, qtext, queries, docs, prompt, attempt, outcomes,
               waits, result, replies, steps, user_state>>
ingestVars == <<dir, collExists, entries, indexOps, runLog, edits>>
auxVars == <<call, svcLog, answeredLog, savedLog, pressLog>>
vars == <<queryVars, ingestVars, auxVars>>

-----------------------------------------------------------------------------
(* Bounds of the model.                                                    *)
NumQuestions == 2

Questions == 1..NumQuestions
\* Questions and users are interchangeable, so the user of question q is
\* named among 1..q: every way of sharing users between the questions
\* (all one user, all different, anything between) is one of these.
Users == 1..NumQuestions
UsersOf(q) == 1..q

-----------------------------------------------------------------------------
(* Values.                                                                 *)
NoneVal == "<None>"

\* str.strip() on the texts the model uses.
Strip(s) == IF s = " " THEN "" ELSE s

\* The names bound at module level in rag_service.py by its imports.
ModuleNames ==
    {"logging", "textwrap", "List", "Tuple", "Optional", "chromadb",
     "embedding_functions", "ollama", "ResponseError", "CHROMA_DIR",
     "COLLECTION_NAME", "EMBED_MODEL", "OLLAMA_BASE_URL", "OLLAMA_MODEL",
     "TOP_K"}

\* `for attempt in range(3)`
MaxAttempts == 3
\* `if status == 503`
StatusOverloaded == 503
\* the service statuses other than the overload one that the model uses
OtherStatuses == {500}
\* `if len(state["history"]) > 10`
HistoryCap == 10
\* `", ".join(sources[:3])`
MaxShownSources == 3

Passage(t, s, d) == [text |-> t, source |-> s, distance |-> d]

\* config.py: TOP_K, the default of retrieve's top_k.
TOP_K == 4

\* collection.query(n_results = n) on a collection whose entries, nearest to
\* the query first, are `ranked`: the n nearest as three parallel lists (a
\* metadata is kept as its source field).
collection_query(ranked, n) ==
    LET hits == IF Len(ranked) > n THEN SubSeq(ranked, 1, n) ELSE ranked
    IN [documents |-> [i \in 1..Len(hits) |-> hits[i].text],
        metadatas |-> [i \in 1..Len(hits) |-> hits[i].source],
        distances |-> [i \in 1..Len(hits) |-> hits[i].distance]]

\* A zip that pairs the lists from the far end.
ZipReversed(res) ==
    [i \in 1..Len(res.documents) |->
        Passage(res.documents[Len(res.documents) + 1 - i],
                res.metadatas[Len(res.documents) + 1 - i],
                res.distances[Len(res.documents) + 1 - i])]

\* list(zip(docs, metas, distances)): as long as the shortest list.
Zip(res) ==
    LET n == CHOOSE k \in {Len(res.documents), Len(res.metadatas), Len(res.distances)} :
                 /\ k <= Len(res.documents)
                 /\ k <= Len(res.metadatas)
                 /\ k <= Len(res.distances)
    IN [i \in 1..n |-> Passage(res.documents[i], res.metadatas[i], res.distances[i])]

\* retrieve(query, top_k) when the query succeeds (lines 56-61, 70-73).
retrieve(ranked, top_k) == Zip(collection_query(ranked, top_k))

\* What retrieve may return: the passages of an empty and of a small index.
QueryResults ==
    { retrieve(<<>>, TOP_K),
      retrieve(<< Passage("t1", "s1", 1), Passage("t2", "s2", 2) >>, TOP_K) }

\* How collection.query may end.
QueryOutcomes == {"ok", "corrupt", "runtime_error", "other_exception"}

\* The content of a well-formed response: each question has its own.
AnswerText(q) == "A" \o ToString(q)
\* The text a ResponseError carries: blank, or a message.
ServiceTexts == {" ", "boom"}

\* How one ollama.chat call may end: a well-formed response, a response
\* without message/content, a ResponseError with a status, another exception.
ChatOutcomes(q) ==
    {[kind |-> "ok", status |-> 200, text |-> AnswerText(q)]}
    \cup {[kind |-> "malformed", status |-> 200, text |-> ""]}
    \cup {[kind |-> "ResponseError", status |-> StatusOverloaded, text |-> "boom"]}
    \cup {[kind |-> "ResponseError", status |-> s, text |-> t] :
             s \in OtherStatuses, t \in ServiceTexts}
    \cup {[kind |-> "OtherException", status |-> 0, text |-> "connection"]}

NoResult == [kind |-> "none", exc |-> "", status |-> 0, text |-> ""]
Returned(a) == [kind |-> "returned", exc |-> "", status |-> 0, text |-> a]
Raised(e, s, t) == [kind |-> "raised", exc |-> e, status |-> s, text |-> t]

\* The two remediation texts (Russian in the source, named here by content).
CorruptMsg == "index corrupted: delete chroma_db and run python ingest.py --reset"
OverloadMsg == "Ollama overloaded (503): wait and retry, check ollama list, restart Ollama"

DefaultUserState ==
    [history |-> <<>>, favorites |-> <<>>, last_answer |-> NoneVal,
     last_sources |-> <<>>, awaiting |-> NoneVal]

\* get_user_state: the dict after the lookup (a missing user gets the default).
get_user_state(us, u) ==
    IF u \in DOMAIN us THEN us ELSE us @@ (u :> DefaultUserState)

Last(s, n) == IF Len(s) > n THEN SubSeq(s, Len(s) - n + 1, Len(s)) ELSE s

\* add_to_history
add_to_history(us, u, q, a) ==
    LET st == get_user_state(us, u)
        h == Append(st[u].history, <<q, a>>)
    IN [st EXCEPT ![u].history = Last(h, HistoryCap)]

\* `state["favorites"][-20:]`
FavoritesCap == 20

\* add_to_favorites, with `date` the time of saving.
add_to_favorites(us, u, a, date) ==
    LET st == get_user_state(us, u)
        f == Append(st[u].favorites, [text |-> a, date |-> date])
    IN [st EXCEPT ![u].favorites = Last(f, FavoritesCap)]

\* set_user_state(uid, awaiting=None)
set_awaiting_none(us, u) ==
    LET st == get_user_state(us, u)
    IN [st EXCEPT ![u].awaiting = NoneVal]

\* set_user_state(uid, last_answer=answer, last_sources=[...])
set_last_answer(us, u, a, srcs) ==
    LET st == get_user_state(us, u)
    IN [st EXCEPT ![u].last_answer = a, ![u].last_sources = srcs]

SeqRange(s) == {s[i] : i \in 1..Len(s)}
Orderings(S) ==
    {f \in [1..Cardinality(S) -> S] : \A i, j \in 1..Cardinality(S) : f[i] = f[j] => i = j}
Take(s, n) == IF Len(s) > n THEN SubSeq(s, 1, n) ELSE s

-----------------------------------------------------------------------------
(* _build_prompt: the (system, user) pair.  The user message is kept as    *)
(* the sequence of its parts in the order of the text: the request label   *)
(* and the question, the context label, then for every passage its         *)
(* "[source]" tag and its text, or the placeholder when there is none.     *)
Part(kind, val) == <<kind, val>>

\* meta.get("source", "unknown")
SourceTag(s) == IF s = NoneVal THEN "unknown" ELSE s

\* Context parts joined in reverse order of the passages.
ContextPartsReversed(ds) ==
    [i \in 1..(2 * Len(ds)) |->
        IF i % 2 = 1 THEN Part("tag", SourceTag(ds[Len(ds) + 1 - ((i + 1) \div 2)].source))
        ELSE Part("text", ds[Len(ds) + 1 - (i \div 2)].text)]

ContextParts(ds) ==
    [i \in 1..(2 * Len(ds)) |->
        IF i % 2 = 1 THEN Part("tag", SourceTag(ds[(i + 1) \div 2].source))
        ELSE Part("text", ds[i \div 2].text)]

BuildPrompt(question, ds) ==
    [system |-> "SYSTEM_RULES",
     user |-> << Part("label", "user request:"), Part("question", question),
                 Part("label", "knowledge base context:") >>
              \o (IF ContextParts(ds) = <<>>
                  THEN << Part("placeholder", "no context found") >>
                  ELSE ContextParts(ds))]

NoPrompt == [system |-> "", user |-> <<>>]

-----------------------------------------------------------------------------
InitQuery ==
    /\ pc = [q \in Questions |-> "new"]
    /\ quser = [q \in Questions |-> 0]
    /\ qtext = [q \in Questions |-> ""]
    /\ queries = [q \in Questions |-> <<>>]
    /\ docs = [q \in Questions |-> <<>>]
    /\ prompt = [q \in Questions |-> NoPrompt]
    /\ attempt = [q \in Questions |-> 0]
    /\ outcomes = [q \in Questions |-> <<>>]
    /\ waits = [q \in Questions |-> <<>>]
    /\ result = [q \in Questions |-> NoResult]
    /\ replies = [q \in Questions |-> <<>>]
    /\ steps = [q \in Questions |-> <<>>]
    /\ user_state = <<>>

NoCall == [fn |-> "none"]

\* The users of the long sessions: user 1 asks many questions, user 2 saves
\* many answers.
BotUsers == {1, 2}

InitAux ==
    /\ call = NoCall
    /\ svcLog = <<>>
    /\ answeredLog = [u \in BotUsers |-> <<>>]
    /\ savedLog = [u \in BotUsers |-> <<>>]
    /\ pressLog = <<>>

-----------------------------------------------------------------------------
(* The ingestion side: data/raw, the collection, ingest.py.                *)

\* How many runs of ingest.py and edits of data/raw a behaviour holds.
MaxRuns == 2
MaxEdits == 1
\* CHUNK_SIZE and CHUNK_OVERLAP of config.py, scaled to the model's texts.
ChunkSize == 2
ChunkOverlap == 1

\* The files data/raw may hold, by path relative to BASE_DIR.
Paths == {"data/raw/a.txt", "data/raw/b.txt", "data/raw/c.md"}
Filename(p) ==
    CASE p = "data/raw/a.txt" -> "a.txt"
      [] p = "data/raw/b.txt" -> "b.txt"
      [] OTHER -> "c.md"
\* The position of the file's pattern in ("*.txt", "*.md", "*.pdf", "*.docx").
PatternRank(p) == IF p = "data/raw/c.md" THEN 2 ELSE 1

\* A file whose reader raises instead of returning text (an unreadable or
\* damaged file: read_txt, read_pdf and read_docx all let the error out).
Unreadable == <<"<unreadable>">>

\* A file's text is a sequence of characters; <<>> is an empty or absent file.
FileTexts(p) ==
    IF p = "data/raw/c.md"
    THEN {<<>>, <<"x">>, Unreadable}
    ELSE {<<>>, <<" ">>, <<"x">>, <<"x", "y", "z">>}

\* `not text.strip()`
IsBlank(t) == \A i \in 1..Len(t) : t[i] = " "

\* The orders in which the two nested loops of load_documents may visit the
\* files: pattern by pattern, and within one pattern as rglob yields them,
\* which is the directory's own order and not fixed.
LoadOrders ==
    {o \in Orderings(Paths) :
        \A i, j \in 1..Len(o) : i < j => PatternRank(o[i]) <= PatternRank(o[j])}

RECURSIVE LoadFrom(_, _, _)
LoadFrom(d, o, i) ==
    IF i > Len(o) THEN <<>>
    ELSE IF IsBlank(d[o[i]])
         THEN LoadFrom(d, o, i + 1)
         ELSE << [text |-> d[o[i]], source |-> o[i], filename |-> Filename(o[i])] >>
              \o LoadFrom(d, o, i + 1)

\* load_documents over directory d visited in order o: blank files are
\* skipped, the others give (text, {source, filename}).
load_documents(d, o) == LoadFrom(d, o, 1)

\* load_documents calls the readers with no try/except around them: the
\* error of one file's reader is the error of the whole call.
LoadRaises(d) == \E p \in Paths : d[p] = Unreadable

Min(a, b) == IF a < b THEN a ELSE b

\* splitter.split_text: windows of ChunkSize characters, each starting
\* ChunkSize - ChunkOverlap after the one before.
SplitText(t) ==
    LET step == ChunkSize - ChunkOverlap
        n == IF Len(t) = 0 THEN 0
             ELSE IF Len(t) <= ChunkSize THEN 1
             ELSE 1 + ((Len(t) - ChunkSize + step - 1) \div step)
    IN [k \in 1..n |-> SubSeq(t, (k - 1) * step + 1,
                               Min((k - 1) * step + ChunkSize, Len(t)))]

RECURSIVE ChunksFrom(_, _)
ChunksFrom(ds, i) ==
    IF i > Len(ds) THEN <<>>
    ELSE LET parts == SplitText(ds[i].text)
         IN [k \in 1..Len(parts) |->
                [text |-> parts[k], source |-> ds[i].source,
                 filename |-> ds[i].filename, chunk |-> k - 1]]
            \o ChunksFrom(ds, i + 1)

\* build_chunks: every document's chunks in document order, each with the
\* document's metadata and its 0-based index within the document.
build_chunks(ds) == ChunksFrom(ds, 1)

\* hashlib.md5 of the raw id string, taken as injective: the id is named by
\* the string's three parts.
Md5(source, chunk, ordinal) == <<source, chunk, ordinal>>

\* Ids made of the source alone.
ChunkIdsBySourceOnly(chunks) ==
    [i \in 1..Len(chunks) |-> Md5(chunks[i].source, 0, 0)]

\* The id loop of upsert_chunks: source, chunk index and, third, the
\* chunk's 0-based position in the whole batch.
ChunkIds(chunks) ==
    [i \in 1..Len(chunks) |-> Md5(chunks[i].source, chunks[i].chunk, i - 1)]

Entry(id, c) ==
    [id |-> id, text |-> c.text, source |-> c.source, filename |-> c.filename,
     chunk |-> c.chunk]

BatchEntries(chunks) ==
    LET ids == ChunkIds(chunks)
    IN {Entry(ids[i], chunks[i]) : i \in 1..Len(chunks)}

\* collection.upsert: an entry of the batch replaces the entry with its id.
Upsert(ents, batch) ==
    {e \in ents : \A b \in batch : b.id # e.id} \cup batch

\* ensure_collection: with reset the collection is deleted first (the error
\* of deleting a missing one is ignored); then it is fetched, or created
\* empty when missing.
ensure_collection(exists, ents, reset) ==
    [exists |-> TRUE,
     entries |-> IF reset \/ ~exists THEN {} ELSE ents,
     ops |-> IF reset THEN <<"delete_collection", "get_or_create_collection">>
             ELSE <<"get_or_create_collection">>]

\* upsert_chunks
upsert_chunks(exists, ents, chunks, reset) ==
    LET c == ensure_collection(exists, ents, reset)
    IN [exists |-> c.exists,
        entries |-> Upsert(c.entries, BatchEntries(chunks)),
        ops |-> Append(c.ops, "upsert"),
        ids |-> ChunkIds(chunks),
        written |-> BatchEntries(chunks)]

NoIndexWork(exists, ents) ==
    [exists |-> exists, entries |-> ents, ops |-> <<>>, ids |-> <<>>,
     written |-> {}]

\* A main() that goes on to upsert_chunks whatever was loaded.
MainWithoutEarlyReturn(exists, ents, ds, reset) ==
    upsert_chunks(exists, ents, build_chunks(ds), reset)

\* main() after load_documents returned ds: nothing is done without
\* documents or without chunks; otherwise the chunks are upserted.
Main(exists, ents, ds, reset) ==
    IF ds = <<>> THEN NoIndexWork(exists, ents)
    ELSE IF build_chunks(ds) = <<>> THEN NoIndexWork(exists, ents)
    ELSE upsert_chunks(exists, ents, build_chunks(ds), reset)

InitIngest ==
    /\ dir \in {d \in [Paths -> UNION {FileTexts(p) : p \in Paths}] :
                   \A p \in Paths : d[p] \in FileTexts(p)}
    /\ collExists = FALSE
    /\ entries = {}
    /\ indexOps = <<>>
    /\ runLog = <<>>
    /\ edits = 0

\* One run of `python ingest.py [--reset]`.  When load_documents raises,
\* main ends with that error before anything else is done.
IngestRun ==
    /\ Len(runLog) < MaxRuns
    /\ \E reset \in BOOLEAN, o \in LoadOrders :
         LET raised == LoadRaises(dir)
             ds == IF raised THEN <<>> ELSE load_documents(dir, o)
             m == IF raised THEN NoIndexWork(collExists, entries)
                  ELSE Main(collExists, entries, ds, reset)
         IN /\ collExists' = m.exists
            /\ entries' = m.entries
            /\ indexOps' = indexOps \o m.ops
            /\ runLog' = Append(runLog,
                   [reset |-> reset, dir |-> dir, raised |-> raised,
                    loaded |-> ds,
                    chunks |-> build_chunks(ds), ids |-> m.ids,
                    written |-> m.written, ops |-> m.ops,
                    existedBefore |-> collExists, before |-> entries,
                    existsAfter |-> m.exists, after |-> m.entries])
    /\ UNCHANGED <<dir, edits, queryVars, auxVars>>

\* Someone writes, empties or removes one file of data/raw between runs.
EditFile ==
    /\ edits < MaxEdits
    /\ \E p \in Paths : \E t \in FileTexts(p) :
         /\ t # dir[p]
         /\ dir' = [dir EXCEPT ![p] = t]
    /\ edits' = edits + 1
    /\ UNCHANGED <<collExists, entries, indexOps, runLog, queryVars, auxVars>>

NextIngest == IngestRun \/ EditFile

-----------------------------------------------------------------------------
(* bot.py, handle_question up to the hand-over to the worker thread         *)
(* (lines 119-134): an empty question is answered with a hint and dropped;  *)
(* otherwise the user's record is looked up (created when missing), the    *)
(* "thinking" notice is sent and generate_answer starts in asyncio.to_thread.*)
MessageTexts == {" ", "q?"}

Reply(k, t, srcs) == [kind |-> k, text |-> t, sources |-> srcs]

HandleQuestion(q) ==
    /\ pc[q] = "new"
    /\ \E u \in UsersOf(q), t \in MessageTexts :
         /\ quser' = [quser EXCEPT ![q] = u]
         /\ qtext' = [qtext EXCEPT ![q] = Strip(t)]
         /\ IF Strip(t) = ""
            THEN /\ pc' = [pc EXCEPT ![q] = "rejected"]
                 /\ replies' = [replies EXCEPT ![q] = Append(@, Reply("hint", "", <<>>))]
                 /\ UNCHANGED user_state
            ELSE /\ pc' = [pc EXCEPT ![q] = "retrieve"]
                 /\ replies' = [replies EXCEPT ![q] = Append(@, Reply("thinking", "", <<>>))]
                 /\ user_state' = get_user_state(user_state, u)
    /\ UNCHANGED <<queries, docs, prompt, attempt, outcomes, waits, result, steps,
                   ingestVars, auxVars>>

\* What collection.query came back with: the result, or the error raised.
QueryError(o) ==
    CASE o = "corrupt" -> [exc |-> "RuntimeError", text |-> "Cannot open header file"]
      [] o = "runtime_error" -> [exc |-> "RuntimeError", text |-> "query failed"]
      [] OTHER -> [exc |-> "Exception", text |-> "query failed"]

QueryCall(o) ==
    IF o = "ok" THEN [outcome |-> o, exc |-> "", text |-> ""]
    ELSE [outcome |-> o, exc |-> QueryError(o).exc, text |-> QueryError(o).text]

\* `"Cannot open header file" in str(e)`
MentionsHeaderFile(t) == t \in {"Cannot open header file"}

\* A handler that turns every error of the query into the remediation error.
OnQueryErrorAlwaysRemediation(e) == Raised("RuntimeError", 0, CorruptMsg)

\* retrieve's handling of an error of collection.query (lines 62-69): only
\* a RuntimeError is caught, and only one naming the header file is replaced.
OnQueryError(e) ==
    IF e.exc = "RuntimeError" /\ MentionsHeaderFile(e.text)
    THEN Raised("RuntimeError", 0, CorruptMsg)
    ELSE Raised(e.exc, 0, e.text)

\* A retrieve whose failure is swallowed: the call goes on with no passages.
RetrieveSwallowsError(q) ==
    /\ pc[q] = "retrieve"
    /\ \E o \in QueryOutcomes, r \in QueryResults :
         /\ queries' = [queries EXCEPT ![q] = Append(@, QueryCall(o))]
         /\ docs' = [docs EXCEPT ![q] = IF o = "ok" THEN r ELSE <<>>]
         /\ steps' = [steps EXCEPT ![q] =
                        Append(@, IF o = "ok" THEN "retrieved" ELSE "retrieve_raised")]
         /\ pc' = [pc EXCEPT ![q] = "prompt"]
    /\ UNCHANGED <<quser, qtext, prompt, attempt, outcomes, waits, result, replies,
                   user_state, ingestVars, auxVars>>

(* RagService.retrieve (lines 54-73), the first statement of               *)
(* generate_answer: one collection.query; a RuntimeError naming the header *)
(* file becomes the remediation error, any other error leaves unchanged.   *)
Retrieve(q) ==
    /\ pc[q] = "retrieve"
    /\ \E o \in QueryOutcomes, r \in QueryResults :
         /\ queries' = [queries EXCEPT ![q] = Append(@, QueryCall(o))]
         /\ IF o = "ok"
            THEN /\ docs' = [docs EXCEPT ![q] = r]
                 /\ steps' = [steps EXCEPT ![q] = Append(@, "retrieved")]
                 /\ pc' = [pc EXCEPT ![q] = "prompt"]
                 /\ UNCHANGED result
            ELSE /\ result' = [result EXCEPT ![q] = OnQueryError(QueryError(o))]
                 /\ steps' = [steps EXCEPT ![q] = Append(@, "retrieve_raised")]
                 /\ pc' = [pc EXCEPT ![q] = "raised"]
                 /\ UNCHANGED docs
    /\ UNCHANGED <<quser, qtext, prompt, attempt, outcomes, waits, replies,
                   user_state, ingestVars, auxVars>>

(* generate_answer lines 112-121: the prompt is built from the question and *)
(* the passages, and the attempt loop starts at 0.                         *)
Prompt(q) ==
    /\ pc[q] = "prompt"
    /\ prompt' = [prompt EXCEPT ![q] = BuildPrompt(qtext[q], docs[q])]
    /\ attempt' = [attempt EXCEPT ![q] = 0]
    /\ steps' = [steps EXCEPT ![q] = Append(@, "prompted")]
    /\ pc' = [pc EXCEPT ![q] = "chat"]
    /\ UNCHANGED <<quser, qtext, queries, docs, outcomes, waits, result, replies,
                   user_state, ingestVars, auxVars>>

\* The seconds slept before the retry that follows attempt a (line 138).
wait_time(a) == 2 + (a * 3)

(* The except ResponseError branch (lines 132-153) for loop variable a and *)
(* service error o: what the worker does next and, when it raises, what.   *)
(* time.sleep needs the name `time`, which the module never binds.         *)
OnResponseErrorNoStatusCheck(a, o) ==
    IF a < 2
    THEN IF "time" \in ModuleNames
         THEN [next |-> "backoff", res |-> NoResult]
         ELSE [next |-> "raised",
               res |-> Raised("NameError", 0, "name 'time' is not defined")]
    ELSE [next |-> "raised", res |-> Raised("RuntimeError", 0, OverloadMsg)]

OnResponseError(a, o) ==
    IF o.status = StatusOverloaded
    THEN IF a < 2
         THEN IF "time" \in ModuleNames
              THEN [next |-> "backoff", res |-> NoResult]
              ELSE [next |-> "raised",
                    res |-> Raised("NameError", 0, "name 'time' is not defined")]
         ELSE [next |-> "raised", res |-> Raised("RuntimeError", 0, OverloadMsg)]
    ELSE [next |-> "raised",
          res |-> Raised("RuntimeError", o.status,
                         IF Strip(o.text) = "" THEN "service unavailable"
                         ELSE Strip(o.text))]

\* A loop that retries every service error at once and has no attempt bound.
ChatLoopUnbounded(q) ==
    /\ pc[q] = "chat"
    /\ \E o \in ChatOutcomes(q) :
         /\ outcomes' = [outcomes EXCEPT ![q] = Append(@, o)]
         /\ steps' = [steps EXCEPT ![q] = Append(@, "chat")]
         /\ IF o.kind = "ok"
            THEN /\ result' = [result EXCEPT ![q] = Returned(o.text)]
                 /\ pc' = [pc EXCEPT ![q] = "returned"]
                 /\ UNCHANGED attempt
            ELSE /\ attempt' = [attempt EXCEPT ![q] = @ + 1]
                 /\ UNCHANGED <<result, pc>>
    /\ UNCHANGED <<quser, qtext, queries, docs, prompt, waits, replies, user_state,
                   ingestVars, auxVars>>

(* One step of the worker inside `for attempt in range(3)` (lines 121-154): *)
(* either the sleep of a backoff ends and the loop goes on, or one         *)
(* ollama.chat call is made and its outcome handled.                       *)
ChatLoop(q) ==
    /\ pc[q] \in {"chat", "backoff"}
    /\ IF pc[q] = "backoff"
       THEN /\ attempt' = [attempt EXCEPT ![q] = @ + 1]
            /\ IF attempt[q] + 1 < MaxAttempts
               THEN /\ pc' = [pc EXCEPT ![q] = "chat"]
                    /\ UNCHANGED result
               ELSE /\ pc' = [pc EXCEPT ![q] = "raised"]
                    /\ result' = [result EXCEPT ![q] =
                                    Raised("RuntimeError", 0, "Unknown Ollama error")]
            /\ UNCHANGED <<outcomes, waits, steps>>
       ELSE \E o \in ChatOutcomes(q) :
            /\ outcomes' = [outcomes EXCEPT ![q] = Append(@, o)]
            /\ steps' = [steps EXCEPT ![q] = Append(@, "chat")]
            /\ UNCHANGED attempt
            /\ CASE o.kind = "ok" ->
                      /\ result' = [result EXCEPT ![q] = Returned(o.text)]
                      /\ pc' = [pc EXCEPT ![q] = "returned"]
                      /\ UNCHANGED waits
                 [] o.kind = "malformed" ->
                      /\ result' = [result EXCEPT ![q] = Raised("KeyError", 0, "message")]
                      /\ pc' = [pc EXCEPT ![q] = "raised"]
                      /\ UNCHANGED waits
                 [] o.kind = "OtherException" ->
                      /\ result' = [result EXCEPT ![q] = Raised("OtherException", 0, o.text)]
                      /\ pc' = [pc EXCEPT ![q] = "raised"]
                      /\ UNCHANGED waits
                 [] OTHER ->
                      LET d == OnResponseError(attempt[q], o)
                      IN /\ result' = [result EXCEPT ![q] = d.res]
                         /\ pc' = [pc EXCEPT ![q] = d.next]
                         /\ waits' = [waits EXCEPT ![q] =
                                IF d.next = "backoff"
                                THEN Append(@, wait_time(attempt[q]))
                                ELSE @]
    /\ UNCHANGED <<quser, qtext, queries, docs, prompt, replies, user_state,
                   ingestVars, auxVars>>

(* bot.py, handle_question after the worker thread ends (lines 135-157):   *)
(* on an answer the user's record and history are updated and the answer   *)
(* is sent with up to three sources, taken from a set (so in no fixed      *)
(* order); on an error, or when the answer cannot be sent, an error        *)
(* message is sent, and a failure to send that one is ignored.             *)
SourcesOf(ds) == [i \in 1..Len(ds) |-> ds[i].source]

\* A handler that enters the failed question and its error in the history.
DeliverRecordsFailure(q) ==
    /\ pc[q] \in {"returned", "raised"}
    /\ IF pc[q] = "returned"
       THEN /\ user_state' =
                 add_to_history(
                     set_last_answer(user_state, quser[q], result[q].text,
                                     SourcesOf(docs[q])),
                     quser[q], qtext[q], result[q].text)
            /\ \E order \in Orderings(SeqRange(SourcesOf(docs[q])) \ {""}),
                  sent \in {"answer", "error", "nothing"} :
                 replies' = [replies EXCEPT ![q] =
                     CASE sent = "answer" ->
                            Append(@, Reply("answer", result[q].text,
                                            Take(order, MaxShownSources)))
                       [] sent = "error" -> Append(@, Reply("error", "send failed", <<>>))
                       [] OTHER -> @]
            /\ pc' = [pc EXCEPT ![q] = "answered"]
       ELSE /\ user_state' = add_to_history(user_state, quser[q], qtext[q],
                                             result[q].text)
            /\ \E sent \in {"error", "nothing"} :
                 replies' = [replies EXCEPT ![q] =
                     IF sent = "error"
                     THEN Append(@, Reply("error", result[q].text, <<>>))
                     ELSE @]
            /\ pc' = [pc EXCEPT ![q] = "failed"]
    /\ UNCHANGED <<quser, qtext, queries, docs, prompt, attempt, outcomes, waits,
                   result, steps, ingestVars, auxVars>>

Deliver(q) ==
    /\ pc[q] \in {"returned", "raised"}
    /\ IF pc[q] = "returned"
       THEN /\ user_state' =
                 add_to_history(
                     set_last_answer(user_state, quser[q], result[q].text,
                                     SourcesOf(docs[q])),
                     quser[q], qtext[q], result[q].text)
            /\ \E order \in Orderings(SeqRange(SourcesOf(docs[q])) \ {""}),
                  sent \in {"answer", "error", "nothing"} :
                 replies' = [replies EXCEPT ![q] =
                     CASE sent = "answer" ->
                            Append(@, Reply("answer", result[q].text,
                                            Take(order, MaxShownSources)))
                       [] sent = "error" -> Append(@, Reply("error", "send failed", <<>>))
                       [] OTHER -> @]
            /\ pc' = [pc EXCEPT ![q] = "answered"]
       ELSE /\ UNCHANGED user_state
            /\ \E sent \in {"error", "nothing"} :
                 replies' = [replies EXCEPT ![q] =
                     IF sent = "error"
                     THEN Append(@, Reply("error", result[q].text, <<>>))
                     ELSE @]
            /\ pc' = [pc EXCEPT ![q] = "failed"]
    /\ UNCHANGED <<quser, qtext, queries, docs, prompt, attempt, outcomes, waits,
                   result, steps, ingestVars, auxVars>>

NextQuery ==
    \E q \in Questions :
        \/ HandleQuestion(q)
        \/ Retrieve(q)
        \/ Prompt(q)
        \/ ChatLoop(q)
        \/ Deliver(q)

\* The query side runs against an index that no ingestion touches meanwhile.
Init == InitQuery /\ InitIngest /\ InitAux /\ dir = [p \in Paths |-> <<>>]
Next == NextQuery
Spec == Init /\ [][Next]_vars

-----------------------------------------------------------------------------
(* Single calls of the functions that depend on their arguments alone.     *)

\* The longest passage list a single call is given.
MaxPassages == 3

PromptQuestions == {"q?", "why?"}
PassagePool == {Passage("t1", "s1", 1), Passage("t2", "s2", 2), Passage("t1", NoneVal, 3)}
PassageLists == UNION {[1..n -> PassagePool] : n \in 0..MaxPassages}

\* rag._build_prompt(question, docs)
ApplyBuildPrompt ==
    /\ \E question \in PromptQuestions, ds \in PassageLists :
         call' = [fn |-> "_build_prompt", question |-> question, docs |-> ds,
                  out |-> BuildPrompt(question, ds)]
    /\ UNCHANGED <<queryVars, ingestVars, svcLog, answeredLog, savedLog, pressLog>>

\* How many entries the index of a single retrieve call holds at most.
IndexSize == 5

IndexEntry(i) == Passage("t" \o ToString(i), IF i % 2 = 1 THEN "s1" ELSE "s2", i)

\* The entries numbered in S, nearest first.
RECURSIVE Ranked(_)
Ranked(S) ==
    IF S = {} THEN <<>>
    ELSE LET m == CHOOSE x \in S : \A y \in S : x <= y
         IN <<IndexEntry(m)>> \o Ranked(S \ {m})

\* rag.retrieve(query, top_k) on a readable index
ApplyRetrieve ==
    /\ \E S \in SUBSET (1..IndexSize), k \in 1..TOP_K :
         call' = [fn |-> "retrieve", ranked |-> Ranked(S), top_k |-> k,
                  out |-> retrieve(Ranked(S), k)]
    /\ UNCHANGED <<queryVars, ingestVars, svcLog, answeredLog, savedLog, pressLog>>

NextCalls == ApplyBuildPrompt \/ ApplyRetrieve

InitCalls == InitQuery /\ InitIngest /\ InitAux /\ dir = [p \in Paths |-> <<>>]
SpecCalls == InitCalls /\ [][NextCalls]_vars

-----------------------------------------------------------------------------
(* Long sessions: the handlers of bot.py that touch user_state, each taken *)
(* as one step.  Handlers run on one event loop and touch user_state only  *)
(* between awaits; handle_question does so once generate_answer has ended  *)
(* (lines 136-137), so a question is one step at that moment.              *)

\* How many questions user 1 gets answered and how many favorites user 2
\* saves; the other user does few of each.
MaxAnswers == 11
MaxSaves == 21
Few == 1

AnswerBudget(u) == IF u = 1 THEN MaxAnswers ELSE Few
SaveBudget(u) == IF u = 2 THEN MaxSaves ELSE Few

workVars == <<pc, quser, qtext, queries, docs, prompt, attempt, outcomes, waits,
              result, replies, steps>>

\* The n-th answer given to user u.
NthAnswer(u, n) == "A" \o ToString(u) \o "." \o ToString(n)

\* handle_question for a message of user u, from line 125 to its end:
\* generate_answer returns (the record and the history are updated) or
\* raises (only the lookup of line 126 has touched user_state).
QuestionHandled(u) ==
    /\ \E returned \in BOOLEAN :
         IF returned
         THEN /\ Len(answeredLog[u]) < AnswerBudget(u)
              /\ LET a == NthAnswer(u, Len(answeredLog[u]) + 1)
                 IN /\ user_state' =
                         add_to_history(
                             set_last_answer(user_state, u, a, <<"s1">>), u, "q?", a)
                    /\ answeredLog' = [answeredLog EXCEPT ![u] = Append(@, <<"q?", a>>)]
         ELSE /\ user_state' = get_user_state(user_state, u)
              /\ UNCHANGED answeredLog
    /\ UNCHANGED <<workVars, ingestVars, call, svcLog, savedLog, pressLog>>

\* feedback_callback for a button pressed by user u (lines 236-249).
FeedbackCallback(u) ==
    /\ \E action \in {"good", "bad", "save"} :
         LET st == get_user_state(user_state, u)
         IN IF action = "save" /\ st[u].last_answer \notin {NoneVal, ""}
            THEN /\ Len(savedLog[u]) < SaveBudget(u)
                 /\ user_state' = add_to_favorites(st, u, st[u].last_answer,
                                                    Len(savedLog[u]) + 1)
                 /\ savedLog' = [savedLog EXCEPT ![u] =
                        Append(@, [text |-> st[u].last_answer,
                                   date |-> Len(savedLog[u]) + 1])]
            ELSE /\ user_state' = st
                 /\ UNCHANGED savedLog
    /\ UNCHANGED <<workVars, ingestVars, call, svcLog, answeredLog, pressLog>>

\* A reset that also forgets the history.
ResetForgetsHistory(u) ==
    /\ user_state' = [get_user_state(user_state, u) EXCEPT ![u].history = <<>>]
    /\ UNCHANGED <<workVars, ingestVars, call, svcLog, answeredLog, savedLog, pressLog>>

\* reset_handler (lines 228-234).
ResetHandler(u) ==
    /\ user_state' = set_awaiting_none(user_state, u)
    /\ UNCHANGED <<workVars, ingestVars, call, svcLog, answeredLog, savedLog, pressLog>>

NextBot ==
    \E u \in BotUsers :
        \/ QuestionHandled(u)
        \/ FeedbackCallback(u)
        \/ ResetHandler(u)

InitBot == InitQuery /\ InitIngest /\ InitAux /\ dir = [p \in Paths |-> <<>>]
SpecBot == InitBot /\ [][NextBot]_vars

-----------------------------------------------------------------------------
(* The buttons under an answer: every answer message is sent with the      *)
(* inline keyboard of feedback_inline_keyboard (lines 147-149), whose       *)
(* buttons carry "fb:good", "fb:bad" or "fb:save" and nothing else.         *)

\* How many times a save button is pressed in a behaviour.
MaxPresses == 1

\* Whether the answer message of question q, with its buttons, was sent.
AnswerShown(q) ==
    /\ pc[q] = "answered"
    /\ \E i \in 1..Len(replies[q]) : replies[q][i].kind = "answer"

\* feedback_callback (lines 236-249) for a button under the answer message
\* of question q, pressed by the user who asked it.  The callback data
\* names the action only: what is saved is the user's last_answer.
PressButton(q) ==
    /\ AnswerShown(q)
    /\ \E action \in {"good", "bad", "save"} :
         LET u == quser[q]
             st == get_user_state(user_state, u)
         IN IF action = "save"
            THEN /\ Len(pressLog) < MaxPresses
                 /\ IF st[u].last_answer \notin {NoneVal, ""}
                    THEN user_state' = add_to_favorites(st, u, st[u].last_answer,
                                                        Len(pressLog) + 1)
                    ELSE user_state' = st
                 /\ pressLog' = Append(pressLog,
                        [user |-> u, pressed |-> result[q].text,
                         saved |-> IF st[u].last_answer \notin {NoneVal, ""}
                                   THEN st[u].last_answer ELSE NoneVal])
            ELSE /\ user_state' = st
                 /\ UNCHANGED pressLog
    /\ UNCHANGED <<workVars, ingestVars, call, svcLog, answeredLog, savedLog>>

NextPress == NextQuery \/ \E q \in Questions : PressButton(q)

InitPress == InitQuery /\ InitIngest /\ InitAux /\ dir = [p \in Paths |-> <<>>]
SpecPress == InitPress /\ [][NextPress]_vars

-----------------------------------------------------------------------------
(* The start of the bot: RagService() opens the persisted collection       *)
(* (rag_service.py lines 21-52) that the runs of ingest.py write.          *)

\* How many times the bot is started in a behaviour.
MaxStarts == 1

CallOutcomes == {"ok", "error"}

(* _get_or_create_collection on a client whose four kinds of call end as   *)
(* o says (o.open1, o.open2: the two get_or_create_collection calls;       *)
(* o.delete: delete_collection; o.create: both create_collection calls).   *)
(* When both opens fail the collection is deleted, an error of the delete  *)
(* being ignored, and created anew; create_collection fails on a           *)
(* collection that is still there.                                         *)
get_or_create_collection(exists, ents, o) ==
    IF o.open1 = "ok"
    THEN [exists |-> TRUE, entries |-> IF exists THEN ents ELSE {},
          ops |-> <<"get_or_create_collection">>, raised |-> FALSE]
    ELSE IF o.open2 = "ok"
    THEN [exists |-> TRUE, entries |-> IF exists THEN ents ELSE {},
          ops |-> <<"get_or_create_collection", "get_or_create_collection">>,
          raised |-> FALSE]
    ELSE LET deleted == exists /\ o.delete = "ok"
             there == exists /\ ~deleted
             created == ~there /\ o.create = "ok"
         IN [exists |-> there \/ created,
             entries |-> IF there THEN ents ELSE {},
             ops |-> <<"get_or_create_collection", "get_or_create_collection",
                       "delete_collection", "create_collection">>
                     \o (IF created THEN <<>> ELSE <<"create_collection">>),
             raised |-> ~created]

\* rag = RagService() in bot.py's main (line 169).
ConstructService ==
    /\ Len(svcLog) < MaxStarts
    /\ \E o \in [open1 : CallOutcomes, open2 : CallOutcomes,
                  delete : CallOutcomes, create : CallOutcomes] :
         LET c == get_or_create_collection(collExists, entries, o)
         IN /\ collExists' = c.exists
            /\ entries' = c.entries
            /\ indexOps' = indexOps \o c.ops
            /\ svcLog' = Append(svcLog,
                   [existedBefore |-> collExists, before |-> entries,
                    existsAfter |-> c.exists, after |-> c.entries,
                    ops |-> c.ops, raised |-> c.raised])
    /\ UNCHANGED <<dir, runLog, edits, queryVars, call, answeredLog, savedLog, pressLog>>

NextService == NextIngest \/ ConstructService

InitService == InitQuery /\ InitIngest /\ InitAux
SpecService == InitService /\ [][NextService]_vars

\* The ingestion side: no question is asked meanwhile.
InitIngestion == InitQuery /\ InitIngest /\ InitAux
SpecIngest == InitIngestion /\ [][NextIngest]_vars

-----------------------------------------------------------------------------
(* The generation call: claims C1-C5.                                      *)

\* The worker thread of question q has left generate_answer.
CallEnded(q) == pc[q] \in {"returned", "raised", "answered", "failed"}

IsOverload(o) == o.kind = "ResponseError" /\ o.status = StatusOverloaded
IsFatal(o) == o.kind # "ok" /\ ~IsOverload(o)

\* C1: a call whose every chat attempt was answered 503 has made exactly
\* three attempts when it ends, and ends raising the overload remediation
\* error.
C1_OverloadedMakesThreeAttempts ==
    \A q \in Questions :
        (/\ CallEnded(q)
         /\ outcomes[q] # <<>>
         /\ \A i \in 1..Len(outcomes[q]) : IsOverload(outcomes[q][i]))
        => /\ Len(outcomes[q]) = MaxAttempts
           /\ result[q] = Raised("RuntimeError", 0, OverloadMsg)

\* C2: a chat attempt that fails with anything but 503 is the call's last
\* attempt; the call ends raising, and for a service error the raised error
\* carries the service's status and its (stripped) text.
C2_FatalFailureEndsCall ==
    \A q \in Questions : \A i \in 1..Len(outcomes[q]) :
        IsFatal(outcomes[q][i])
        => /\ i = Len(outcomes[q])
           /\ pc[q] \in {"raised", "failed"}
           /\ result[q].kind = "raised"
           /\ outcomes[q][i].kind = "ResponseError"
              => /\ result[q].exc = "RuntimeError"
                 /\ result[q].status = outcomes[q][i].status
                 /\ Strip(outcomes[q][i].text) # ""
                    => result[q].text = Strip(outcomes[q][i].text)

C2_Witness ==
    \E q \in Questions : \E s \in OtherStatuses :
        /\ pc[q] = "failed"
        /\ outcomes[q] = << [kind |-> "ResponseError", status |-> s,
                             text |-> "boom"] >>
        /\ result[q] = Raised("RuntimeError", s, "boom")

\* C3: a call makes at most three chat attempts, and it has ended exactly
\* when it has a result, which is then an answer or an error, as its end says.
C3_BoundedAttemptsOneEnd ==
    \A q \in Questions :
        /\ Len(outcomes[q]) <= MaxAttempts
        /\ CallEnded(q) <=> result[q].kind # "none"
        /\ pc[q] \in {"returned", "answered"} <=> result[q].kind = "returned"
        /\ pc[q] \in {"raised", "failed"} <=> result[q].kind = "raised"

C3_Witness ==
    \E q, p \in Questions :
        /\ result[q].kind = "returned" /\ Len(outcomes[q]) = 1
        /\ result[p].kind = "raised" /\ Len(outcomes[p]) = 1

Before(s, a, b) ==
    \A i \in 1..Len(s) : s[i] = b => \E j \in 1..(i - 1) : s[j] = a

\* C4: in every call retrieval comes before the prompt and the prompt before
\* any chat attempt; a call whose retrieval raised has no prompt, no chat
\* attempt and no answer.
C4_RetrievePromptChatOrder ==
    \A q \in Questions :
        /\ Before(steps[q], "retrieved", "prompted")
        /\ Before(steps[q], "prompted", "chat")
        /\ prompt[q] # NoPrompt => "retrieved" \in SeqRange(steps[q])
        /\ "retrieve_raised" \in SeqRange(steps[q])
           => /\ steps[q] = <<"retrieve_raised">>
              /\ prompt[q] = NoPrompt
              /\ outcomes[q] = <<>>
              /\ result[q].kind = "raised"

C4_Witness ==
    \E q, p \in Questions :
        /\ steps[q] = <<"retrieved", "prompted", "chat">>
        /\ pc[q] = "answered"
        /\ steps[p] = <<"retrieve_raised">>
        /\ pc[p] = "failed"

\* C5: a call whose attempt before the third was answered 503 is suspended
\* in backoff (or has woken up for its next attempt), and meanwhile every
\* other question can take its next step: be submitted, retrieve, build its
\* prompt, chat, be replied to.
C5_BackoffSuspendsOnlyTheCall ==
    \A q \in Questions :
        (/\ outcomes[q] # <<>>
         /\ Len(outcomes[q]) < MaxAttempts
         /\ IsOverload(outcomes[q][Len(outcomes[q])]))
        => /\ pc[q] \in {"backoff", "chat"}
           /\ \A p \in Questions \ {q} :
                /\ pc[p] = "new" => ENABLED HandleQuestion(p)
                /\ pc[p] = "retrieve" => ENABLED Retrieve(p)
                /\ pc[p] = "prompt" => ENABLED Prompt(p)
                /\ pc[p] \in {"chat", "backoff"} => ENABLED ChatLoop(p)
                /\ pc[p] \in {"returned", "raised"} => ENABLED Deliver(p)

-----------------------------------------------------------------------------
(* Ingestion: claims C6-C10.                                               *)

Runs == 1..Len(runLog)

\* C6: a run with reset=false that follows a run with reset=false over the
\* same files leaves as many entries in the collection as that run left.
C6_SecondRunAddsNoEntries ==
    \A i \in Runs : \A j \in Runs :
        (/\ j = i + 1
         /\ runLog[i].dir = runLog[j].dir
         /\ ~runLog[i].reset /\ ~runLog[j].reset)
        => Cardinality(runLog[j].after) = Cardinality(runLog[i].after)

\* C7 as amended: a run with reset=true that finds nothing to ingest leaves a
\* populated collection in place with exactly the entries it had.
C7_ResetWithNothingToIngestKeepsEntries ==
    \A i \in Runs :
        (runLog[i].reset /\ runLog[i].chunks = <<>> /\ runLog[i].before # {})
        => /\ runLog[i].existsAfter
           /\ runLog[i].after = runLog[i].before

\* C7 as stated: a run with reset=true that finds nothing to ingest leaves a
\* populated collection in place with zero entries.
C7_ResetWithNothingToIngestEmptiesCollection ==
    \A i \in Runs :
        (runLog[i].reset /\ runLog[i].chunks = <<>> /\ runLog[i].before # {})
        => /\ runLog[i].existsAfter
           /\ runLog[i].after = {}

C7_Witness ==
    \E i \in Runs :
        /\ runLog[i].reset /\ runLog[i].loaded = <<>> /\ ~runLog[i].raised
        /\ runLog[i].existedBefore /\ runLog[i].before # {}
        /\ collExists /\ entries = runLog[i].before

\* C8: a run that loads no document, or builds no chunk, issues no operation
\* on the vector index, with or without reset, and the index is as before.
C8_NothingToIngestTouchesNoIndex ==
    \A i \in Runs :
        runLog[i].chunks = <<>>
        => /\ runLog[i].ops = <<>>
           /\ runLog[i].existsAfter = runLog[i].existedBefore
           /\ runLog[i].after = runLog[i].before

C8_Witness ==
    \E i \in Runs :
        /\ i > 1
        /\ ~runLog[i].reset /\ runLog[i].loaded = <<>> /\ ~runLog[i].raised
        /\ runLog[i].existedBefore /\ runLog[i].before # {}
        /\ indexOps = runLog[i - 1].ops
        /\ entries = runLog[i - 1].after

\* C9: two runs over the same files write the same ids, and a chunk with the
\* same source, chunk index and text has the same id in both.
C9_SameFilesSameIds ==
    \A i \in Runs : \A j \in Runs :
        runLog[i].dir = runLog[j].dir
        => /\ Len(runLog[i].ids) = Len(runLog[j].ids)
           /\ SeqRange(runLog[i].ids) = SeqRange(runLog[j].ids)
           /\ \A a \in runLog[i].written : \A b \in runLog[j].written :
                (a.source = b.source /\ a.chunk = b.chunk /\ a.text = b.text)
                => a.id = b.id

\* C10: whatever order load_documents yields the files of a run in, the
\* entries built from them are the ones the run wrote.
C10_LoadOrderDoesNotMatter ==
    \A i \in Runs : \A o \in LoadOrders :
        runLog[i].chunks # <<>>
        => BatchEntries(build_chunks(load_documents(runLog[i].dir, o)))
             = runLog[i].written

\* C11: in every run, load_documents does not raise, and every file with
\* readable, non-blank text is among the documents it returns, whatever the
\* other files are.
C11_BadFileIsSkipped ==
    \A i \in Runs :
        /\ ~runLog[i].raised
        /\ \A p \in Paths :
             (runLog[i].dir[p] # Unreadable /\ ~IsBlank(runLog[i].dir[p]))
             => \E k \in 1..Len(runLog[i].loaded) : runLog[i].loaded[k].source = p

\* C12: a call whose collection.query raised has issued exactly one query
\* and no chat attempt, and has ended with the remediation RuntimeError when
\* the error was a RuntimeError naming the header file, and with the very
\* error of the query (same class, same text) otherwise.
C12_CorruptIndexIsFatalNotRetried ==
    \A q \in Questions :
        /\ Len(queries[q]) <= 1
        /\ (queries[q] # <<>> /\ queries[q][1].outcome # "ok") =>
              /\ pc[q] \in {"raised", "failed"}
              /\ outcomes[q] = <<>>
              /\ ~\E i \in 1..Len(steps[q]) : steps[q][i] \in {"prompted", "chat"}
              /\ result[q] =
                   IF queries[q][1].outcome = "corrupt"
                   THEN Raised("RuntimeError", 0, CorruptMsg)
                   ELSE Raised(queries[q][1].exc, 0, queries[q][1].text)

C12_Witness ==
    \E q \in Questions :
        /\ pc[q] = "failed"
        /\ queries[q] = <<QueryCall("corrupt")>>
        /\ result[q].text = CorruptMsg
        /\ \E i \in 1..Len(replies[q]) :
              replies[q][i].kind = "error" /\ replies[q][i].text = CorruptMsg

\* The places of the user message that hold the context block.
ContextPlaces(u) ==
    {i \in 1..Len(u) : u[i][1] \in {"tag", "text", "placeholder"}}

QuestionPlaces(u) == {i \in 1..Len(u) : u[i][1] = "question"}

\* The context block of u is, for each passage of ds in order, its tag then
\* its text, and the placeholder alone when ds is empty.
ContextBlockIs(u, ds) ==
    LET block == SelectSeq(u, LAMBDA x : x[1] \in {"tag", "text", "placeholder"})
    IN /\ ds = <<>> => block = << <<"placeholder", "no context found">> >>
       /\ ds # <<>> =>
            /\ Len(block) = 2 * Len(ds)
            /\ \A k \in 1..Len(ds) :
                 /\ block[2 * k - 1] =
                      <<"tag", IF ds[k].source = NoneVal THEN "unknown" ELSE ds[k].source>>
                 /\ block[2 * k] = <<"text", ds[k].text>>
       /\ \A i, j \in ContextPlaces(u) : \A k \in i..j : k \in ContextPlaces(u)

\* C13 as stated: the user message holds every passage's tag followed by
\* its text in the supplied order (the placeholder when there are none),
\* and the literal question comes after the context block.
C13_QuestionAfterContext ==
    call.fn = "_build_prompt" =>
        /\ ContextBlockIs(call.out.user, call.docs)
        /\ \E i \in 1..Len(call.out.user) : call.out.user[i] = <<"question", call.question>>
        /\ \A i \in QuestionPlaces(call.out.user), j \in ContextPlaces(call.out.user) : j < i

\* C13, amended: the same, with the literal question before the context
\* block.
C13_QuestionBeforeContext ==
    call.fn = "_build_prompt" =>
        /\ ContextBlockIs(call.out.user, call.docs)
        /\ \E i \in 1..Len(call.out.user) : call.out.user[i] = <<"question", call.question>>
        /\ \A i \in QuestionPlaces(call.out.user), j \in ContextPlaces(call.out.user) : i < j

C13_Witness ==
    /\ call.fn = "_build_prompt"
    /\ Len(call.docs) = 2
    /\ call.docs[1].source = "s2" /\ call.docs[2].source = NoneVal
    /\ call.out.user[Len(call.out.user)] = <<"text", call.docs[2].text>>

\* C14: retrieve(query, top_k) returns at most top_k passages, the nearest
\* entries of the index in the index's order, none dropped, moved or
\* repeated, each with the text, metadata and distance of one same entry.
C14_RetrieveKeepsIndexOrder ==
    call.fn = "retrieve" =>
        /\ Len(call.out) <= call.top_k
        /\ Len(call.out) <= Len(call.ranked)
        /\ Len(call.out) \in {call.top_k, Len(call.ranked)}
        /\ \A i \in 1..Len(call.out) : call.out[i] = call.ranked[i]

C14_Witness ==
    /\ call.fn = "retrieve"
    /\ Len(call.ranked) = TOP_K + 1
    /\ call.top_k = TOP_K
    /\ Len(call.out) = TOP_K
    /\ call.out[TOP_K].distance > call.out[1].distance

\* The elements of s, each once, in the order of their first occurrence.
RECURSIVE FirstOccurrences(_)
FirstOccurrences(s) ==
    IF s = <<>> THEN <<>>
    ELSE LET front == FirstOccurrences(SubSeq(s, 1, Len(s) - 1))
         IN IF s[Len(s)] \in SeqRange(front) THEN front ELSE Append(front, s[Len(s)])

\* C15: the sources shown under an answer are the non-empty source fields of
\* the passages used, each once, in the order of their first occurrence in
\* the ranked passages, cut to the first three.
C15_SourcesInRankOrder ==
    \A q \in Questions :
        \A i \in 1..Len(replies[q]) :
            replies[q][i].kind = "answer" =>
                replies[q][i].sources =
                    Take(FirstOccurrences(SelectSeq(SourcesOf(docs[q]), LAMBDA x : x # "")),
                         MaxShownSources)

\* C16: after the n-th attempt of a call is answered 503, for n = 1 and 2,
\* the call has waited 2 + 3 * (n - 1) seconds before its retry (2, then 5:
\* strictly more each time), and no wait follows the third attempt.
C16_WaitGrowsWithAttempt ==
    \A q \in Questions :
        /\ Len(waits[q]) <= MaxAttempts - 1
        /\ \A n \in 1..Len(outcomes[q]) :
             (IsOverload(outcomes[q][n]) /\ n < MaxAttempts) =>
                 /\ Len(waits[q]) >= n
                 /\ waits[q][n] = 2 + 3 * (n - 1)
        /\ \A m, n \in 1..Len(waits[q]) : m < n => waits[q][m] < waits[q][n]

\* C17: in every run that reaches the upsert, the ids of the batch are as
\* many as the chunks and pairwise distinct, every chunk has its own entry
\* written, and a run with reset leaves exactly as many entries as chunks.
C17_BatchIdsAreDistinct ==
    \A i \in Runs :
        runLog[i].chunks # <<>> =>
            /\ Len(runLog[i].ids) = Len(runLog[i].chunks)
            /\ \A j, k \in 1..Len(runLog[i].ids) :
                 j # k => runLog[i].ids[j] # runLog[i].ids[k]
            /\ Cardinality(runLog[i].written) = Len(runLog[i].chunks)
            /\ runLog[i].reset => Cardinality(runLog[i].after) = Len(runLog[i].chunks)

C17_Witness ==
    \E i \in Runs :
        /\ runLog[i].reset /\ runLog[i].before # {}
        /\ Len(runLog[i].chunks) >= 3
        /\ \E j, k \in 1..Len(runLog[i].chunks) :
             /\ j # k
             /\ runLog[i].chunks[j].source = runLog[i].chunks[k].source
        /\ Cardinality(entries) = Len(runLog[i].chunks)

\* C18: constructing RagService never drops or recreates the collection:
\* whatever errors the opening calls end with, a collection that existed
\* before exists after with the entries it had, and neither
\* delete_collection nor create_collection is issued.
C18_ServiceStartKeepsCollection ==
    \A k \in 1..Len(svcLog) :
        /\ svcLog[k].existedBefore =>
              svcLog[k].existsAfter /\ svcLog[k].after = svcLog[k].before
        /\ \A i \in 1..Len(svcLog[k].ops) :
              svcLog[k].ops[i] \notin {"delete_collection", "create_collection"}

\* C19: each user's history is the last 10 of the (question, answer) pairs
\* answered for that user, in the order they were answered, and the
\* favorites are the last 20 of the answers the user saved, in the order
\* they were saved; no other handler (the reset among them) changes either.
C19_HistoryAndFavoritesAreBounded ==
    \A u \in DOMAIN user_state :
        /\ Len(user_state[u].history) <= 10
        /\ user_state[u].history =
              IF Len(answeredLog[u]) > 10
              THEN SubSeq(answeredLog[u], Len(answeredLog[u]) - 9, Len(answeredLog[u]))
              ELSE answeredLog[u]
        /\ Len(user_state[u].favorites) <= 20
        /\ user_state[u].favorites =
              IF Len(savedLog[u]) > 20
              THEN SubSeq(savedLog[u], Len(savedLog[u]) - 19, Len(savedLog[u]))
              ELSE savedLog[u]

C19_Witness ==
    /\ DOMAIN user_state = BotUsers
    /\ Len(answeredLog[1]) = 11 /\ Len(user_state[1].history) = 10
    /\ user_state[1].history[1] = answeredLog[1][2]
    /\ Len(savedLog[2]) = 21 /\ Len(user_state[2].favorites) = 20
    /\ user_state[2].favorites[20].date = 21
    /\ user_state[1].awaiting = NoneVal

\* Every user's record as get_user_state gives it (a user with no record
\* yet has the default one).
UserView(us) == [u \in Users |-> get_user_state(us, u)[u]]

ErrorReplyOf(q) == [kind |-> "error", text |-> result[q].text, sources |-> <<>>]

\* C20 as stated: no step of a question other than the delivery of a
\* returned answer changes any user's record, and the handler of a question
\* whose generate_answer raised sends the error message, and never an answer.
C20_FailureSendsErrorKeepsState ==
    [][/\ (\A q \in Questions : ~(pc[q] = "returned" /\ pc'[q] = "answered"))
            => UserView(user_state') = UserView(user_state)
       /\ \A q \in Questions :
            (pc[q] = "raised" /\ pc'[q] = "failed") =>
                /\ replies'[q] = Append(replies[q], ErrorReplyOf(q))
                /\ \A i \in 1..Len(replies'[q]) : replies'[q][i].kind # "answer"
      ]_vars

\* C20, amended: the same, with the error message sent unless that send
\* fails too, in which case nothing more is sent.
C20_FailureKeepsState ==
    [][/\ (\A q \in Questions : ~(pc[q] = "returned" /\ pc'[q] = "answered"))
            => UserView(user_state') = UserView(user_state)
       /\ \A q \in Questions :
            (pc[q] = "raised" /\ pc'[q] = "failed") =>
                /\ replies'[q] \in {replies[q], Append(replies[q], ErrorReplyOf(q))}
                /\ \A i \in 1..Len(replies'[q]) : replies'[q][i].kind # "answer"
      ]_vars

C20_Witness ==
    \E q, r \in Questions :
        /\ q # r /\ quser[q] = quser[r]
        /\ pc[r] = "answered" /\ pc[q] = "failed"
        /\ result[q].kind = "raised"
        /\ Len(user_state[quser[q]].history) = 1
        /\ user_state[quser[q]].last_answer = result[r].text
        /\ replies[q][Len(replies[q])] = ErrorReplyOf(q)

\* C21: every press of a save button has added to the pressing user's
\* favorites the answer text of the message the button is under, whatever
\* other questions of that user were answered before the press.
C21_SaveAddsThePressedAnswer ==
    \A i \in 1..Len(pressLog) : pressLog[i].saved = pressLog[i].pressed

====
